---- MODULE Spec2Model ----
(***************************************************************************)
(* Model of src/src/process/tau-rpc.ts: the TauRpcClient line-protocol     *)
(* client, the module-level singleton registry (runPiRpc / resetPiRpc) and *)
(* the event callbacks Node delivers to them (write callback, readline     *)
(* "line", stderr "data", child "exit", the timeout timer).                *)
(*                                                                         *)
(* A client is named by the call that constructed it and a subprocess by   *)
(* the call whose ensureChild() spawned it, so one bound (MaxCalls) bounds  *)
(* calls, clients and subprocesses.  0 stands for null / undefined where    *)
(* the field holds a client, a subprocess or a pending-call record.        *)
(*                                                                         *)
(* Each action is one callback of the event loop, run to completion.  The  *)
(* awaited stdin write splits prompt() in two: PromptStart runs in the      *)
(* caller's turn, PromptWritten when the write promise settles.  Between    *)
(* the two any other callback may run.  idleTimer is never set by the      *)
(* code, so its clearTimeout in the exit handler changes nothing.           *)
(*                                                                         *)
(* Three specifications share the variables: Spec / FairSpec run the       *)
(* client and the registry, NormSpec applies normalizePiPrompt to every     *)
(* payload of a bounded set, TimerSpec follows the timer of one call from   *)
(* the requested timeoutMs to its firing.                                   *)
(***************************************************************************)
EXTENDS Integers, Sequences, FiniteSets, TLC

\* ---------------------------------------------------------------- bounds
MaxCalls == 2
MaxLines == 2
MaxErr == 1
MaxStrLen == 2
MaxParts == 2
MaxDelta == 4

Calls == 1..MaxCalls
Clients == 1..MaxCalls
Procs == 1..MaxCalls

\* ------------------------------------------------------------ data values
Undefined == "undefined"
NoSignal == "null"
Absent == "absent"
NullCode == -1

\* runPiRpc options (cwd, argv) the callers draw from.
Opts ==
  { [cwd |-> Undefined, argv |-> <<"pi", "rpc">>],
    [cwd |-> Undefined, argv |-> <<"pi rpc">>],
    [cwd |-> "w", argv |-> <<"pi", "rpc">>] }

NoOpts == [cwd |-> Undefined, argv |-> <<>>]

MarkerLine == "{\"type\":\"agent_end\"}"
OutLines == {"ok", "{\"type\":\"text\"}", "{\"type\":\"agent_end\"}"}

ExitCodes == {2}

ErrBusy == "tau rpc already handling a request"
ErrTimeout == "tau rpc timed out"
ErrWrite == "write failed"

\* Array.prototype.join(sep)
RECURSIVE JoinWith(_, _)
JoinWith(s, sep) ==
  IF s = <<>> THEN ""
  ELSE IF Len(s) = 1 THEN s[1]
  ELSE s[1] \o sep \o JoinWith(Tail(s), sep)

\* JSON.parse(line)?.type for the lines the subprocess emits; "throws" when
\* the line is not JSON.
JsonType(line) ==
  CASE line = "{\"type\":\"agent_end\"}" -> "agent_end"
    [] line = "{\"type\":\"text\"}" -> "text"
    [] OTHER -> "throws"

\* `${opts.cwd ?? ""}|${opts.argv.join(" ")}`
KeyOf(o) == (IF o.cwd = Undefined THEN "" ELSE o.cwd) \o "|" \o JoinWith(o.argv, " ")

NoExit == [code |-> NullCode, signal |-> Absent]

NoResult ==
  [kind |-> "none", stdout |-> "", stderr |-> "", code |-> NullCode,
   signal |-> Absent, killed |-> Absent, error |-> ""]

\* The TauRpcResult object literals of handleLine and of the exit handler:
\* neither sets the optional `killed` property.
Resolved(out, err, code, signal) ==
  [kind |-> "resolved", stdout |-> out, stderr |-> err, code |-> code,
   signal |-> signal, killed |-> Absent, error |-> ""]

Rejected(msg) ==
  [kind |-> "rejected", stdout |-> "", stderr |-> "", code |-> NullCode,
   signal |-> Absent, killed |-> Absent, error |-> msg]


\* ------------------------------------------------------- normalizePiPrompt
\* A JavaScript string is the sequence of its characters.
Chars == {"a", " "}
Strings == UNION {[1..n -> Chars] : n \in 0..MaxStrLen}

\* Values a `text` property or a content element can hold: a string, a number
\* (s its digits), null, undefined (for a property: absent) and the object {}.
JsString(s) == [t |-> "string", s |-> s]
JsNumber == [t |-> "number", s |-> <<"7">>]
JsNull == [t |-> "null", s |-> <<>>]
JsUndefined == [t |-> "undefined", s |-> <<>>]
JsEmptyObject == [t |-> "object", s |-> <<>>]
FieldValues ==
  {JsString(s) : s \in Strings} \cup {JsNumber, JsNull, JsUndefined, JsEmptyObject}

\* Elements of a content array: the value v itself (part = FALSE), or an
\* object whose `text` property is v (part = TRUE).  Their strings are empty
\* or one character long.
ItemValues == {v \in FieldValues : Len(v.s) <= 1}
Items ==
  {[part |-> FALSE, v |-> v] : v \in ItemValues \ {JsUndefined, JsEmptyObject}}
    \cup {[part |-> TRUE, v |-> v] : v \in ItemValues}

NoContent == [isArray |-> FALSE, items |-> <<>>]
Contents ==
  {NoContent} \cup
  {[isArray |-> TRUE, items |-> q] : q \in UNION {[1..n -> Items] : n \in 0..MaxParts}}

\* PromptPayload: a string, another primitive, a function (s its source
\* text), a bigint (s its digits), or an object with an optional content
\* array and an optional text property.
Primitive(tag, s) == [t |-> tag, s |-> s, content |-> NoContent, text |-> JsUndefined]
Payloads ==
  {Primitive("string", s) : s \in Strings}
    \cup {Primitive("number", <<"7">>), Primitive("null", <<>>),
          Primitive("undefined", <<>>), Primitive("function", <<"f">>),
          Primitive("bigint", <<"7">>)}
    \cup {[t |-> "object", s |-> <<>>, content |-> c, text |-> x] :
            c \in Contents, x \in FieldValues}
NoPayload == Primitive("none", <<>>)

\* String.prototype.trim()
IsSpace(ch) == ch \in {" ", "\n"}
RECURSIVE TrimStart(_)
TrimStart(s) ==
  IF s # <<>> /\ IsSpace(Head(s)) THEN TrimStart(Tail(s)) ELSE s
RECURSIVE TrimEnd(_)
TrimEnd(s) ==
  IF s # <<>> /\ IsSpace(s[Len(s)]) THEN TrimEnd(SubSeq(s, 1, Len(s) - 1)) ELSE s
Trim(s) == TrimEnd(TrimStart(s))

\* Array.prototype.join(sep) on strings that are character sequences
RECURSIVE JoinChars(_, _)
JoinChars(q, sep) ==
  IF q = <<>> THEN <<>>
  ELSE IF Len(q) = 1 THEN q[1]
  ELSE q[1] \o sep \o JoinChars(Tail(q), sep)

\* JSON.stringify: [kind |-> "string", s |-> the text], or kind "undefined"
\* (nothing to serialize) or "throws".
Quote(s) == <<"\"">> \o s \o <<"\"">>
JsonOfField(v) ==
  CASE v.t = "string" -> Quote(v.s)
    [] v.t = "number" -> v.s
    [] v.t = "object" -> <<"{", "}">>
    [] OTHER -> <<"n", "u", "l", "l">>
JsonOfText(v) == Quote(<<"t", "e", "x", "t">>) \o <<":">> \o JsonOfField(v)
JsonOfItem(item) ==
  IF item.part
  THEN IF item.v.t = "undefined" THEN <<"{", "}">>
       ELSE <<"{">> \o JsonOfText(item.v) \o <<"}">>
  ELSE JsonOfField(item.v)
JsonOfContent(c) ==
  Quote(<<"c", "o", "n", "t", "e", "n", "t">>) \o <<":", "[">>
    \o JoinChars([i \in 1..Len(c.items) |-> JsonOfItem(c.items[i])], <<",">>)
    \o <<"]">>
JsonStringify(p) ==
  CASE p.t = "string" -> [kind |-> "string", s |-> Quote(p.s)]
    [] p.t = "number" -> [kind |-> "string", s |-> p.s]
    [] p.t = "null" -> [kind |-> "string", s |-> <<"n", "u", "l", "l">>]
    [] p.t = "object" ->
         LET members ==
               (IF p.content.isArray THEN <<JsonOfContent(p.content)>> ELSE <<>>)
                 \o (IF p.text.t # "undefined" THEN <<JsonOfText(p.text)>> ELSE <<>>)
         IN [kind |-> "string", s |-> <<"{">> \o JoinChars(members, <<",">>) \o <<"}">>]
    [] p.t = "bigint" -> [kind |-> "throws", s |-> <<>>]
    [] OTHER -> [kind |-> "undefined", s |-> <<>>]

\* String(prompt) for the payloads JSON.stringify gives no text for
StringOf(p) ==
  CASE p.t = "bigint" -> p.s
    [] p.t = "function" -> p.s
    [] p.t = "null" -> <<"n", "u", "l", "l">>
    [] OTHER -> <<"u", "n", "d", "e", "f", "i", "n", "e", "d">>

\* the text a content element contributes (the .map callback)
PartText(item) ==
  IF ~item.part
  THEN IF item.v.t = "string" THEN item.v.s ELSE <<>>
  ELSE IF item.v.t = "string" THEN item.v.s ELSE <<>>

\* parts.join("\n").trim() of the content array
Combined(c) ==
  LET texts == [i \in 1..Len(c.items) |-> PartText(c.items[i])]
      parts == SelectSeq(texts, LAMBDA x : x # <<>>)
  IN Trim(JoinChars(parts, <<"\n">>))

Normalized(text, coerced) == [text |-> text, coerced |-> coerced]
NoNorm == [text |-> <<>>, coerced |-> FALSE]

\* normalizePiPrompt that trims a string prompt
NormalizePiPrompt_Trims(p) ==
  IF p.t = "string" THEN Normalized(Trim(p.s), FALSE)
  ELSE Normalized(<<>>, TRUE)

\* normalizePiPrompt that looks at the text property before the content
NormalizePiPrompt_TextFirst(p) ==
  IF p.t = "string" THEN Normalized(p.s, FALSE)
  ELSE IF p.t = "object" /\ p.text.t = "string" THEN Normalized(p.text.s, TRUE)
  ELSE IF p.t = "object" /\ p.content.isArray /\ Combined(p.content) # <<>>
       THEN Normalized(Combined(p.content), TRUE)
  ELSE Normalized(JsonStringify(p).s, TRUE)

\* normalizePiPrompt(prompt)
NormalizePiPrompt(p) ==
  IF p.t = "string" THEN Normalized(p.s, FALSE)
  ELSE IF p.t = "object" /\ p.content.isArray /\ Combined(p.content) # <<>>
       THEN Normalized(Combined(p.content), TRUE)
  ELSE IF p.t = "object" /\ p.text.t = "string" THEN Normalized(p.text.s, TRUE)
  ELSE LET json == JsonStringify(p) IN
       IF json.kind = "string" /\ json.s # <<>> THEN Normalized(json.s, TRUE)
       ELSE Normalized(IF p.t \in {"null", "undefined"} THEN <<>> ELSE StringOf(p),
                       TRUE)

\* ------------------------------------------------------- the timeout timer
HardCapMs == 300000

Min(a, b) == IF a <= b THEN a ELSE b

\* capMs without the ceiling
CapMs_Uncapped(t) == t

\* const capMs = Math.min(timeoutMs, 5 * 60 * 1000)
CapMs(t) == Min(t, HardCapMs)

\* Requested timeouts, and the instants at which the clock is observed: a few
\* milliseconds, the ceiling and its neighbourhood, and twice the ceiling.
TimeoutInputs ==
  (1..MaxDelta) \cup {HardCapMs + d : d \in (0 - MaxDelta)..MaxDelta} \cup {2 * HardCapMs}
Instants == {0} \cup TimeoutInputs

\* ------------------------------------------------------------------ state
VARIABLES
  singleton,  \* module-level cache: [key, client], client = 0 when undefined
  argvOf,     \* client -> the (cwd, argv) its constructor stored
  child,      \* client -> this.child (a subprocess, 0 = null)
  rl,         \* client -> this.rl (the subprocess it reads, 0 = null)
  stderr,     \* client -> this.stderr
  buffer,     \* client -> this.buffer
  pending,    \* client -> this.pending (the call whose callbacks it holds, 0)
  pstate,     \* subprocess -> "unspawned" | "running" | "exited" (exit handled)
  killed,     \* subprocess -> child.killed (a signal was sent by kill())
  owner,      \* subprocess -> the client whose handlers are attached to it
  spawnOpts,  \* subprocess -> the (cwd, argv) it was spawned with
  stdin,      \* subprocess -> calls whose prompt envelope was written to it
  pexit,      \* subprocess -> [code, signal] its exit event carried
  cstate,     \* call -> "new" | "writing" | "pending" | "resolved" | "rejected"
  copts,      \* call -> the (cwd, argv) it was issued with
  cclient,    \* call -> the client whose prompt() serves it
  cchild,     \* call -> the `child` its prompt() captured
  timer,      \* call -> its timeout timer is armed
  result,     \* call -> what its promise settled with
  settles,    \* call -> number of times resolve/reject was invoked for it
  observed,   \* call -> lines forwarded to its onEvent observer
  nlines,     \* "line" events delivered so far
  nerr,       \* stderr "data" events delivered so far
  prompt,     \* normalizePiPrompt: the payload it is applied to
  nstage,     \* normalizePiPrompt: "idle" | "input" | "normalized" | "again"
  norm,       \* normalizePiPrompt(prompt)
  renorm,     \* normalizePiPrompt(norm.text)
  timeoutMs,  \* timer: the timeout the caller requested
  tstage,     \* timer: "idle" | "requested" | "armed" | "fired"
  capMs,      \* timer: the delay passed to setTimeout
  elapsed     \* timer: milliseconds since setTimeout

vars ==
  << singleton, argvOf, child, rl, stderr, buffer, pending, pstate, killed,
     owner, spawnOpts, stdin, pexit, cstate, copts, cclient, cchild, timer,
     result, settles, observed, nlines, nerr,
     prompt, nstage, norm, renorm, timeoutMs, tstage, capMs, elapsed >>

clientVars ==
  << singleton, argvOf, child, rl, stderr, buffer, pending, pstate, killed,
     owner, spawnOpts, stdin, pexit, cstate, copts, cclient, cchild, timer,
     result, settles, observed, nlines, nerr >>
normVars == << prompt, nstage, norm, renorm >>
timerVars == << timeoutMs, tstage, capMs, elapsed >>

\* The program state as one record, so that a handler and the methods it
\* calls compose as functions from state to state.
State ==
  [singleton |-> singleton, argvOf |-> argvOf, child |-> child, rl |-> rl,
   stderr |-> stderr, buffer |-> buffer, pending |-> pending,
   pstate |-> pstate, killed |-> killed, owner |-> owner,
   spawnOpts |-> spawnOpts, stdin |-> stdin, pexit |-> pexit,
   cstate |-> cstate, copts |-> copts, cclient |-> cclient,
   cchild |-> cchild, timer |-> timer, result |-> result,
   settles |-> settles, observed |-> observed, nlines |-> nlines,
   nerr |-> nerr]

\* The next state is s (bound once, so that s is evaluated once per step).
Becomes(s) ==
  \E t \in {s} :
    /\ singleton' = t.singleton /\ argvOf' = t.argvOf /\ child' = t.child
    /\ rl' = t.rl /\ stderr' = t.stderr /\ buffer' = t.buffer
    /\ pending' = t.pending /\ pstate' = t.pstate /\ killed' = t.killed
    /\ owner' = t.owner /\ spawnOpts' = t.spawnOpts /\ stdin' = t.stdin
    /\ pexit' = t.pexit /\ nlines' = t.nlines /\ cstate' = t.cstate
    /\ copts' = t.copts /\ cclient' = t.cclient /\ cchild' = t.cchild
    /\ timer' = t.timer /\ result' = t.result /\ settles' = t.settles
    /\ observed' = t.observed /\ nerr' = t.nerr
    /\ UNCHANGED << normVars, timerVars >>

\* no normalizePiPrompt call and no timer under observation
NormIdle ==
  prompt = NoPayload /\ nstage = "idle" /\ norm = NoNorm /\ renorm = NoNorm
TimerIdle ==
  timeoutMs = 0 /\ tstage = "idle" /\ capMs = 0 /\ elapsed = 0

\* the module is loaded: no client, no call
ClientInit ==
  /\ singleton = [key |-> "", client |-> 0]
  /\ argvOf = [cl \in Clients |-> NoOpts]
  /\ child = [cl \in Clients |-> 0]
  /\ rl = [cl \in Clients |-> 0]
  /\ stderr = [cl \in Clients |-> ""]
  /\ buffer = [cl \in Clients |-> <<>>]
  /\ pending = [cl \in Clients |-> 0]
  /\ pstate = [p \in Procs |-> "unspawned"]
  /\ killed = [p \in Procs |-> FALSE]
  /\ owner = [p \in Procs |-> 0]
  /\ spawnOpts = [p \in Procs |-> NoOpts]
  /\ stdin = [p \in Procs |-> <<>>]
  /\ pexit = [p \in Procs |-> NoExit]
  /\ cstate = [c \in Calls |-> "new"]
  /\ copts = [c \in Calls |-> NoOpts]
  /\ cclient = [c \in Calls |-> 0]
  /\ cchild = [c \in Calls |-> 0]
  /\ timer = [c \in Calls |-> FALSE]
  /\ result = [c \in Calls |-> NoResult]
  /\ settles = [c \in Calls |-> 0]
  /\ observed = [c \in Calls |-> <<>>]
  /\ nlines = 0
  /\ nerr = 0

Init == ClientInit /\ NormIdle /\ TimerIdle

\* ------------------------------------------------- promise and subprocess
\* resolve(r) / reject(e) of call c's promise: only the first invocation
\* settles it.
Settle(s, c, r) ==
  IF s.settles[c] = 0
  THEN [s EXCEPT !.settles[c] = 1, !.result[c] = r, !.cstate[c] = r.kind]
  ELSE [s EXCEPT !.settles[c] = @ + 1]

\* child.kill("SIGKILL"): sends the signal and sets child.killed while Node
\* still holds the process handle; a no-op once the exit was handled.
Kill(s, p) ==
  IF s.pstate[p] = "running" THEN [s EXCEPT !.killed[p] = TRUE] ELSE s

\* ------------------------------------------------------------ TauRpcClient
\* dispose() that also drops the pending record and its timer
Dispose_DropsPending(s, cl) ==
  LET p == s.child[cl]
      c == s.pending[cl]
      s1 == [s EXCEPT !.rl[cl] = 0]
      s2 == IF p # 0 /\ ~s1.killed[p] THEN [s1 EXCEPT !.killed[p] = TRUE] ELSE s1
      s3 == IF c # 0 THEN [s2 EXCEPT !.pending[cl] = 0, !.timer[c] = FALSE] ELSE s2
  IN [s3 EXCEPT !.child[cl] = 0, !.buffer[cl] = <<>>, !.stderr[cl] = ""]

\* dispose()
Dispose(s, cl) ==
  LET p == s.child[cl]
      s1 == [s EXCEPT !.rl[cl] = 0]
      s2 == IF p # 0 /\ ~s1.killed[p] THEN Kill(s1, p) ELSE s1
  IN [s2 EXCEPT !.child[cl] = 0, !.buffer[cl] = <<>>, !.stderr[cl] = ""]

\* ensureChild(), p the subprocess spawn() would create.
EnsureChild(s, cl, p) ==
  IF s.child[cl] # 0 THEN s
  ELSE [s EXCEPT !.child[cl] = p, !.rl[cl] = p, !.pstate[p] = "running",
                 !.owner[p] = cl, !.spawnOpts[p] = s.argvOf[cl]]

\* handleLine() that forgets clearTimeout(pending.timer)
HandleLine_KeepsTimer(s, cl, line) ==
  IF s.pending[cl] = 0 THEN s
  ELSE
    LET c == s.pending[cl]
        s1 == [s EXCEPT !.buffer[cl] = Append(@, line),
                        !.observed[c] = Append(@, line)]
    IN IF JsonType(line) = "agent_end"
       THEN Settle([s1 EXCEPT !.pending[cl] = 0, !.buffer[cl] = <<>>],
                   c, Resolved(JoinWith(s1.buffer[cl], "\n"), s1.stderr[cl], 0, Absent))
       ELSE s1

\* handleLine(line)
HandleLine(s, cl, line) ==
  IF s.pending[cl] = 0 THEN s
  ELSE
    LET c == s.pending[cl]
        s1 == [s EXCEPT !.buffer[cl] = Append(@, line),
                        !.observed[c] = Append(@, line)]
    IN IF JsonType(line) = "agent_end"
       THEN Settle([s1 EXCEPT !.pending[cl] = 0, !.buffer[cl] = <<>>,
                              !.timer[c] = FALSE],
                   c, Resolved(JoinWith(s1.buffer[cl], "\n"), s1.stderr[cl], 0, Absent))
       ELSE s1

\* the child "exit" handler registered by ensureChild()
ExitHandler(s, cl, code, signal) ==
  LET c == s.pending[cl]
      s1 == IF c # 0
            THEN Settle([s EXCEPT !.pending[cl] = 0, !.timer[c] = FALSE], c,
                        Resolved(JoinWith(s.buffer[cl], "\n"), s.stderr[cl],
                                 IF code = NullCode THEN 0 ELSE code, signal))
            ELSE s
  IN Dispose(s1, cl)

\* prompt() up to its first await: ensureChild, the busy guard, stdin.write
PromptStart(s, cl, c) ==
  LET s1 == EnsureChild(s, cl, c)
      p == s1.child[cl]
  IN IF s1.pending[cl] # 0
     THEN Settle(s1, c, Rejected(ErrBusy))
     ELSE [s1 EXCEPT !.cstate[c] = "writing", !.cchild[c] = p,
                     !.stdin[p] = Append(@, c)]

\* prompt() that stores the pending record even when the write failed
PromptWritten_PendingOnError(s, c, err) ==
  LET s1 == [s EXCEPT !.timer[c] = TRUE, !.pending[s.cclient[c]] = c,
                      !.cstate[c] = "pending"]
  IN IF err THEN Settle(s1, c, Rejected(ErrWrite)) ELSE s1

\* prompt() that stores the pending record without arming the timer
PromptWritten_NoTimer(s, c, err) ==
  IF err THEN Settle(s, c, Rejected(ErrWrite))
  ELSE [s EXCEPT !.pending[s.cclient[c]] = c, !.cstate[c] = "pending"]

\* prompt() after the write promise settled: reject with the write error, or
\* arm the timer and store the pending record
PromptWritten(s, c, err) ==
  IF err THEN Settle(s, c, Rejected(ErrWrite))
  ELSE [s EXCEPT !.timer[c] = TRUE, !.pending[s.cclient[c]] = c,
                 !.cstate[c] = "pending"]

\* timeout callback that rejects without killing the subprocess
TimerFired_NoKill(s, c) ==
  LET s1 == [s EXCEPT !.pending[s.cclient[c]] = 0, !.timer[c] = FALSE]
  IN Settle(s1, c, Rejected(ErrTimeout))

\* the setTimeout callback of call c
TimerFired(s, c) ==
  LET s1 == [s EXCEPT !.pending[s.cclient[c]] = 0, !.timer[c] = FALSE]
  IN Kill(Settle(s1, c, Rejected(ErrTimeout)), s.cchild[c])

\* ---------------------------------------------------------------- registry
\* runPiRpc() that replaces the cached client without disposing it
RunPiRpcBody_NoDispose(s, c, o) ==
  LET key == KeyOf(o)
      old == s.singleton.client
      s1 == IF old = 0 \/ s.singleton.key # key
            THEN [s EXCEPT !.singleton = [key |-> key, client |-> c],
                           !.argvOf[c] = o]
            ELSE s
      cl == s1.singleton.client
  IN PromptStart([s1 EXCEPT !.copts[c] = o, !.cclient[c] = cl], cl, c)

\* runPiRpc(opts), c the call it serves
RunPiRpcBody(s, c, o) ==
  LET key == KeyOf(o)
      old == s.singleton.client
      s1 == IF old = 0 \/ s.singleton.key # key
            THEN [(IF old # 0 THEN Dispose(s, old) ELSE s)
                    EXCEPT !.singleton = [key |-> key, client |-> c],
                           !.argvOf[c] = o]
            ELSE s
      cl == s1.singleton.client
  IN PromptStart([s1 EXCEPT !.copts[c] = o, !.cclient[c] = cl], cl, c)

ResetPiRpcBody(s) ==
  LET old == s.singleton.client
  IN [(IF old # 0 THEN Dispose(s, old) ELSE s)
        EXCEPT !.singleton = [key |-> "", client |-> 0]]

\* ----------------------------------------------------------------- actions
NextCall == CHOOSE c \in Calls : cstate[c] = "new" /\ \A d \in Calls : d < c => cstate[d] # "new"

RunPiRpc(o) ==
  /\ \E c \in Calls : cstate[c] = "new"
  /\ Becomes(RunPiRpcBody(State, NextCall, o))

ResetPiRpc ==
  /\ singleton.client # 0
  /\ Becomes(ResetPiRpcBody(State))

WriteDone(c, err) ==
  /\ cstate[c] = "writing"
  /\ Becomes(PromptWritten(State, c, err))

Line(p, line) ==
  /\ pstate[p] # "unspawned"
  /\ rl[owner[p]] = p
  /\ nlines < MaxLines
  /\ Becomes(HandleLine([State EXCEPT !.nlines = @ + 1], owner[p], line))

StderrData(p) ==
  /\ pstate[p] # "unspawned"
  /\ nerr < MaxErr
  /\ Becomes([State EXCEPT !.stderr[owner[p]] = @ \o "e", !.nerr = @ + 1])

\* What the exit event of p can carry: its own exit code, or the SIGKILL
\* the client sent (a subprocess may still exit by itself after the kill).
ExitOutcomes(p) ==
  {[code |-> k, signal |-> NoSignal] : k \in ExitCodes}
    \cup (IF killed[p] THEN {[code |-> NullCode, signal |-> "SIGKILL"]} ELSE {})

Exit(p) ==
  /\ pstate[p] = "running"
  /\ \E e \in ExitOutcomes(p) :
       Becomes(ExitHandler([State EXCEPT !.pstate[p] = "exited", !.pexit[p] = e],
                           owner[p], e.code, e.signal))

Timeout(c) ==
  /\ timer[c]
  /\ Becomes(TimerFired(State, c))

Next ==
  \/ \E o \in Opts : RunPiRpc(o)
  \/ ResetPiRpc
  \/ \E c \in Calls, err \in BOOLEAN : WriteDone(c, err)
  \/ \E p \in Procs, line \in OutLines : Line(p, line)
  \/ \E p \in Procs : StderrData(p)
  \/ \E p \in Procs : Exit(p)
  \/ \E c \in Calls : Timeout(c)

Spec == Init /\ [][Next]_vars

\* The event loop runs every callback it has queued: the callback of a write
\* is called, an armed timer fires, and a subprocess that was sent SIGKILL
\* exits.  A subprocess that was not killed may stay alive and silent forever.
Fairness ==
  /\ \A c \in Calls : WF_vars(\E err \in BOOLEAN : WriteDone(c, err))
  /\ \A c \in Calls : WF_vars(Timeout(c))
  /\ \A p \in Procs : WF_vars(killed[p] /\ Exit(p))

FairSpec == Spec /\ Fairness


\* ----------------------------------------- normalizePiPrompt on its inputs
NormInit ==
  /\ ClientInit /\ TimerIdle
  /\ prompt \in Payloads /\ nstage = "input"
  /\ norm = NoNorm /\ renorm = NoNorm

\* normalizePiPrompt(prompt)
Normalize ==
  /\ nstage = "input"
  /\ norm' = NormalizePiPrompt(prompt)
  /\ nstage' = "normalized"
  /\ UNCHANGED << prompt, renorm, clientVars, timerVars >>

\* normalizePiPrompt applied to the text it returned
Renormalize ==
  /\ nstage = "normalized"
  /\ renorm' = NormalizePiPrompt(Primitive("string", norm.text))
  /\ nstage' = "again"
  /\ UNCHANGED << prompt, norm, clientVars, timerVars >>

NormNext == Normalize \/ Renormalize

NormSpec == NormInit /\ [][NormNext]_vars

\* ------------------------------------------- the timer of one pending call
TimerInit ==
  /\ ClientInit /\ NormIdle
  /\ timeoutMs \in TimeoutInputs /\ tstage = "requested"
  /\ capMs = 0 /\ elapsed = 0

\* const capMs = Math.min(...); setTimeout(callback, capMs)
ArmTimer ==
  /\ tstage = "requested"
  /\ capMs' = CapMs(timeoutMs)
  /\ tstage' = "armed"
  /\ UNCHANGED << timeoutMs, elapsed, clientVars, normVars >>

\* time passes up to the next instant; a timer that is due fires first
Tick ==
  /\ tstage = "armed"
  /\ \E i \in Instants :
       /\ elapsed < i /\ i <= capMs
       /\ \A j \in Instants : ~(elapsed < j /\ j < i)
       /\ elapsed' = i
  /\ UNCHANGED << timeoutMs, tstage, capMs, clientVars, normVars >>

\* the setTimeout callback runs once capMs milliseconds have passed
TimerFire ==
  /\ tstage = "armed"
  /\ elapsed = capMs
  /\ tstage' = "fired"
  /\ UNCHANGED << timeoutMs, capMs, elapsed, clientVars, normVars >>

TimerNext == ArmTimer \/ Tick \/ TimerFire

TimerSpec == TimerInit /\ [][TimerNext]_vars

\* ------------------------------------------------------------------ claims
InFlight(c) == cstate[c] \in {"writing", "pending"}
Settled(c) == cstate[c] \in {"resolved", "rejected"}
\* call c is issued in this step
Issued(c) == cstate[c] = "new" /\ cstate'[c] # "new"

\* C1: resolve/reject of a call is invoked at most once over all
\* interleavings of line, exit, timer and dispose events, and once a call is
\* settled no later event changes its result.
C1_SettledAtMostOnce ==
  /\ [](\A c \in Calls : settles[c] <= 1)
  /\ [][\A c \in Calls : Settled(c) =>
          /\ cstate'[c] = cstate[c]
          /\ result'[c] = result[c]
          /\ settles'[c] = settles[c]]_vars

\* C1 witness: a call was resolved by the agent_end line and the exit event of
\* its subprocess was handled afterwards.
C1_Witness ==
  \E c \in Calls :
    /\ cstate[c] = "resolved" /\ result[c].signal = Absent
    /\ settles[c] = 1
    /\ cchild[c] # 0 /\ pstate[cchild[c]] = "exited"

\* C2: under fair scheduling every accepted call is eventually resolved or
\* rejected, also when its subprocess stays alive and never emits agent_end.
C2_EventuallySettled ==
  \A c \in Calls : InFlight(c) ~> Settled(c)

\* C2 witness: a call whose subprocess emitted nothing and has not exited is
\* settled (by the timer).
C2_Witness ==
  \E c \in Calls :
    /\ Settled(c) /\ result[c].error = ErrTimeout
    /\ nlines = 0 /\ observed[c] = <<>>
    /\ pstate[cchild[c]] = "running"

\* C3 (as claimed): a call issued on a client that holds a pending-call record
\* is rejected with the busy error and changes neither the pending record,
\* the buffer nor the eventual result of the first call: the other calls stay
\* as they are, and so do the subprocess and the reader whose line and exit
\* events produce the first call's result.
C3_BusyRejectedFrame ==
  [][\A c \in Calls :
       (Issued(c) /\ pending[cclient'[c]] # 0) =>
          LET cl == cclient'[c] IN
          /\ result'[c] = Rejected(ErrBusy)
          /\ cstate'[c] = "rejected"
          /\ pending' = pending
          /\ buffer' = buffer
          /\ stderr' = stderr
          /\ \A d \in Calls \ {c} :
               /\ cstate'[d] = cstate[d] /\ result'[d] = result[d]
               /\ timer'[d] = timer[d] /\ observed'[d] = observed[d]
               /\ settles'[d] = settles[d]
          /\ child'[cl] = child[cl] /\ rl'[cl] = rl[cl]]_vars

\* C4: at most one call per client has passed the busy guard and is not yet
\* settled.
C4_SingleFlight ==
  \A cl \in Clients :
    Cardinality({c \in Calls : cclient[c] = cl /\ InFlight(c)}) <= 1

\* C5 (as claimed): when the agent_end line is handled for the call that holds
\* the pending record, that call resolves with code 0 and stdout equal to the
\* lines that arrived for this call, joined by "\n"; its timer is cancelled,
\* the buffer is emptied and the client is idle on the same subprocess.
C5_MarkerResolvesWithOwnLines ==
  [][\A c \in Calls :
       (/\ cstate[c] = "pending"
        /\ pending[cclient[c]] = c
        /\ observed'[c] = Append(observed[c], MarkerLine)) =>
          LET cl == cclient[c] IN
          /\ cstate'[c] = "resolved"
          /\ result'[c].code = 0
          /\ result'[c].stdout = JoinWith(observed'[c], "\n")
          /\ ~timer'[c]
          /\ buffer'[cl] = <<>>
          /\ pending'[cl] = 0
          /\ child'[cl] = child[cl]]_vars

\* C6 (as claimed): when the subprocess a call's prompt was sent to exits while
\* that call is awaiting its response, the call resolves with the exit code
\* and signal of that exit and the lines buffered so far, and the client's
\* subprocess resources are disposed.
C6_ExitResolvesSentCall ==
  [][\A c \in Calls, p \in Procs :
       (/\ cstate[c] = "pending" /\ cchild[c] = p
        /\ pstate[p] = "running" /\ pstate'[p] = "exited") =>
          LET cl == cclient[c] IN
          /\ cstate'[c] = "resolved"
          /\ pexit'[p].code # NullCode => result'[c].code = pexit'[p].code
          /\ result'[c].signal = pexit'[p].signal
          /\ result'[c].stdout = JoinWith(buffer[cl], "\n")
          /\ child'[cl] = 0 /\ rl'[cl] = 0
          /\ buffer'[cl] = <<>> /\ stderr'[cl] = ""]_vars

TimedOut(c) == cstate[c] = "rejected" /\ result[c].error = ErrTimeout

\* C7: when the timer of an unsettled call fires, the call is rejected with
\* the timeout error, the pending slot is cleared and the subprocess is sent
\* SIGKILL; the rejection is final, and the subprocess of a timed-out call is
\* never left running without having been killed.
C7_TimeoutRejectsAndKills ==
  /\ [][\A c \in Calls :
          /\ (timer[c] /\ ~timer'[c] /\ ~Settled(c) /\ cstate'[c] = "rejected") =>
               /\ result'[c] = Rejected(ErrTimeout)
               /\ pending'[cclient[c]] = 0
               /\ pstate[cchild[c]] = "running" => killed'[cchild[c]]
          /\ TimedOut(c) =>
               /\ cstate'[c] = "rejected" /\ result'[c] = result[c]
               /\ settles'[c] = settles[c]]_vars
  /\ [](\A c \in Calls :
          TimedOut(c) => (killed[cchild[c]] \/ pstate[cchild[c]] = "exited"))

\* C7 witness: a call timed out, its subprocess was killed, and the exit
\* event of that subprocess was handled after the rejection.
C7_Witness ==
  \E c \in Calls :
    /\ TimedOut(c) /\ settles[c] = 1
    /\ killed[cchild[c]] /\ pstate[cchild[c]] = "exited"
    /\ pexit[cchild[c]].signal = "SIGKILL"

\* C8 (as claimed): a runPiRpc call with the cached client's (cwd, argv) is
\* served by that client and its subprocess; a call whose cwd or argv differs
\* gets another client, and the previous client's subprocess is disposed.
C8_IdentityKeyedReuse ==
  [][\A c \in Calls :
       (Issued(c) /\ singleton.client # 0) =>
          LET old == singleton.client IN
          IF copts'[c] = argvOf[old]
          THEN /\ cclient'[c] = old
               /\ child[old] # 0 => child'[old] = child[old]
          ELSE /\ cclient'[c] # old
               /\ child'[old] = 0
               /\ (child[old] # 0 /\ pstate[child[old]] = "running")
                     => killed'[child[old]]]_vars

\* C9: a call that is pending on a client the registry has disposed (reset, or
\* replaced after an identity change) is eventually settled, exactly once.
C9_DisposedPendingSettled ==
  \A c \in Calls :
    (cstate[c] = "pending" /\ singleton.client # cclient[c])
      ~> (Settled(c) /\ settles[c] = 1)

\* C9 witness: no timer has fired, and a call that had lines buffered was
\* resolved by the exit event that followed the registry's kill, after
\* dispose() had emptied the buffer.
C9_Witness ==
  \E c \in Calls :
    /\ \A d \in Calls : result[d].error # ErrTimeout
    /\ cstate[c] = "resolved" /\ result[c].signal = "SIGKILL"
    /\ observed[c] # <<>> /\ result[c].stdout = ""
    /\ singleton.client # cclient[c]
    /\ settles[c] = 1

\* C10 (as claimed): a call rejected as busy spawns nothing, writes nothing
\* to stdin and kills nothing: process handles and streams are unchanged.
C10_BusyLeavesSubprocessUntouched ==
  [][\A c \in Calls :
       (Issued(c) /\ pending[cclient'[c]] # 0) =>
          /\ child' = child /\ rl' = rl
          /\ pstate' = pstate /\ killed' = killed
          /\ owner' = owner /\ stdin' = stdin]_vars

\* The subprocesses whose stdout the client is reading: a "line" event comes
\* from one of them.
Readers == {p \in Procs : pstate[p] # "unspawned" /\ rl[owner[p]] = p}
LineDelivered == nlines' = nlines + 1
Suffixes(q) == {SubSeq(q, k, Len(q)) : k \in 1..(Len(q) + 1)}

\* C11 (as claimed): the stdout of a resolved call consists only of lines that
\* arrived while that call held the pending record (all of them, or those
\* that arrived after the buffer was last emptied); no line buffered for
\* another call appears in it.
C11_StdoutOnlyOwnLines ==
  \A c \in Calls :
    cstate[c] = "resolved" =>
      \E q \in Suffixes(observed[c]) : result[c].stdout = JoinWith(q, "\n")

\* C12 (as claimed): while a call awaits its response, every line its
\* subprocess emits is forwarded to the call's observer and appended to the
\* buffer, in emission order, JSON or not, and is in the stdout the call
\* resolves with when the line is the marker; the line never makes the call
\* fail.
C12_LinesBufferedAndObserved ==
  [][\A c \in Calls :
       (cstate[c] = "pending" /\ LineDelivered /\ Readers = {cchild[c]}) =>
          LET cl == cclient[c] IN
          \E l \in OutLines :
            /\ observed'[c] = Append(observed[c], l)
            /\ cstate'[c] # "rejected"
            /\ IF JsonType(l) = "agent_end"
               THEN /\ cstate'[c] = "resolved"
                    /\ result'[c].stdout = JoinWith(Append(buffer[cl], l), "\n")
               ELSE /\ cstate'[c] = "pending"
                    /\ buffer'[cl] = Append(buffer[cl], l)]_vars

Alive(p) == pstate[p] = "running"

\* C13: at most one spawned subprocess is alive without having been sent a
\* kill signal, and it is the subprocess of the cached client; the subprocess
\* of a replaced or reset client and of a timed-out call is killed or gone.
C13_NoOrphanSubprocess ==
  /\ Cardinality({p \in Procs : Alive(p) /\ ~killed[p]}) <= 1
  /\ \A p \in Procs :
       (Alive(p) /\ ~killed[p]) =>
          /\ singleton.client = owner[p]
          /\ child[owner[p]] = p
          /\ \A c \in Calls : cchild[c] = p => ~TimedOut(c)

\* C13 witness: the cached client was replaced while its subprocess was
\* running; that subprocess is killed and still alive, next to the running
\* subprocess of the new client.
C13_Witness ==
  \E p, q \in Procs :
    /\ p # q /\ Alive(p) /\ killed[p] /\ owner[p] # singleton.client
    /\ Alive(q) /\ ~killed[q] /\ owner[q] = singleton.client

\* C14 (as claimed): a call resolved by the exit that followed the core's
\* own SIGKILL (dispose by resetPiRpc or by an identity change while the call
\* was pending) carries killed = true in its Result.
C14_KilledFlagInResult ==
  \A c \in Calls :
    (cstate[c] = "resolved" /\ result[c].signal = "SIGKILL")
      => result[c].killed = "true"

WriteFailed(c) == cstate[c] = "rejected" /\ result[c].error = ErrWrite

\* C15: when the write of the prompt fails the call is rejected with the
\* write error; no pending record and no timer is created, nothing more is
\* written or spawned, and the failed call never holds the pending slot, so
\* it never makes a later call busy.
C15_WriteFailureRejects ==
  /\ [][\A c \in Calls :
          (cstate[c] = "writing" /\ WriteFailed(c)') =>
             /\ result'[c] = Rejected(ErrWrite)
             /\ pending' = pending /\ timer' = timer
             /\ stdin' = stdin /\ pstate' = pstate /\ child' = child]_vars
  /\ [](\A c \in Calls :
          WriteFailed(c) => (~timer[c] /\ pending[cclient[c]] # c))
  /\ [][\A c, d \in Calls :
          (WriteFailed(c) /\ Issued(d) /\ cclient'[d] = cclient[c]
             /\ \A e \in Calls \ {c, d} : cclient[e] = cclient[c] => ~InFlight(e))
            => result'[d].error # ErrBusy]_vars

\* C15 witness: a call's write failed, and the next call on the same client
\* was accepted and resolved by the marker.
C15_Witness ==
  \E c, d \in Calls :
    /\ WriteFailed(c) /\ c < d /\ cclient[d] = cclient[c]
    /\ cstate[d] = "resolved" /\ result[d].signal = Absent

\* C20 (as claimed): a prompt is never written to a subprocess the client has
\* already sent SIGKILL to, and no call is resolved by the exit of a
\* subprocess that was killed before the call was issued.
C20_NoPromptToKilledSubprocess ==
  [][\A c \in Calls :
       (Issued(c) /\ cstate'[c] = "writing") => ~killed[cchild'[c]]]_vars

\* C16: the delay of the armed timer is min(timeoutMs, 300000): a request up
\* to the ceiling is honoured exactly, a larger one is cut to the ceiling, and
\* an armed timer is never left waiting for more than 300000 ms.
C16_TimerIsCapped ==
  /\ tstage \in {"armed", "fired"} =>
       /\ capMs <= 300000
       /\ timeoutMs <= 300000 => capMs = timeoutMs
       /\ timeoutMs > 300000 => capMs = 300000
  /\ tstage = "armed" => (elapsed <= 300000 /\ elapsed <= timeoutMs)
  /\ tstage = "fired" => elapsed = capMs

\* C16 witness: a call that asked for more than the ceiling timed out after
\* exactly 300000 ms.
C16_Witness ==
  tstage = "fired" /\ timeoutMs > 300000 /\ elapsed = 300000

\* C17: a plain string is returned unchanged with coerced = false, every
\* other input gives coerced = true, and normalizing the returned text again
\* returns the same text.
C17_StringsUnchanged ==
  /\ nstage \in {"normalized", "again"} =>
       /\ prompt.t = "string" => (norm.text = prompt.s /\ ~norm.coerced)
       /\ prompt.t # "string" => norm.coerced
  /\ nstage = "again" => (renorm.text = norm.text /\ ~renorm.coerced)

\* C17 witness: a string with surrounding blanks was normalized twice.
C17_Witness ==
  /\ nstage = "again" /\ prompt.t = "string"
  /\ prompt.s = <<" ", "a">> /\ renorm.text = <<" ", "a">>

\* the claim's terms, read off the input
ContentParts(p) ==
  SelectSeq([i \in 1..Len(p.content.items) |->
               IF p.content.items[i].v.t = "string"
               THEN p.content.items[i].v.s ELSE <<>>],
            LAMBDA x : x # <<>>)
ContentText(p) ==
  IF p.t = "object" /\ p.content.isArray
  THEN Trim(JoinChars(ContentParts(p), <<"\n">>)) ELSE <<>>
HasStringText(p) == p.t = "object" /\ p.text.t = "string"

\* C18: for a non-string input the strategies apply in order: the non-empty
\* trimmed text of the content array (its non-empty parts joined by newline),
\* also when a top-level text exists; otherwise a top-level string text;
\* otherwise the JSON serialization of the whole input, where it has one;
\* always with coerced = true.
C18_StrategyOrder ==
  (nstage \in {"normalized", "again"} /\ prompt.t # "string") =>
     /\ norm.coerced
     /\ IF ContentText(prompt) # <<>> THEN norm.text = ContentText(prompt)
        ELSE IF HasStringText(prompt) THEN norm.text = prompt.text.s
        ELSE JsonStringify(prompt).kind = "string"
               => norm.text = JsonStringify(prompt).s

\* C18 witness: an input whose content yields text and which also has a
\* top-level string text was normalized to the content's text.
C18_Witness ==
  /\ nstage = "normalized" /\ HasStringText(prompt)
  /\ prompt.text.s = <<"a">>
  /\ Len(prompt.content.items) = 2
  /\ norm.text = <<"a", "\n", "a">>

\* C19 (as claimed): normalizePiPrompt returns text "" with coerced = true for
\* a null input and for an undefined input.
C19_NullAndUndefinedGiveEmptyText ==
  (nstage \in {"normalized", "again"} /\ prompt.t \in {"null", "undefined"})
    => norm = Normalized(<<>>, TRUE)

====
